---- MODULE Spec2Model ----
(***************************************************************************)
(* Prompt Optimizer backend: the POST /api/prompts/test handler, the two   *)
(* provider adapters it dispatches to, and the summary it computes.        *)
(*                                                                         *)
(* Conventions.                                                            *)
(*  - A JavaScript string is a sequence of one-character strings, so that  *)
(*    startsWith, includes and trim are computed, not assumed.             *)
(*  - An optional value (a field that may be undefined) is <<>> when       *)
(*    absent and <<v>> when present.                                       *)
(*  - Money is an integer number of tenths of a micro-dollar (1e-7 $), so  *)
(*    toFixed(6) is a real rounding.  A cost value is a record             *)
(*    [str, val]: str says the JavaScript value is a string (the result    *)
(*    of toFixed), val is the amount it denotes.                           *)
(*  - A delay of the simulated path is an integer number of half           *)
(*    milliseconds, so Math.round is a real rounding.                      *)
(***************************************************************************)
EXTENDS Integers, Sequences, FiniteSets, TLC

VARIABLES
    openai,      \* process-wide OpenAI client handle: "null" or "client"
    anthropic,   \* process-wide Anthropic client handle: "null" or "client"
    pc,          \* pc[b]: "idle", "awaiting" (an adapter call in flight), "done"
    req,         \* req[b]: the request body of batch b
    idx,         \* idx[b]: 1-based position of the loop in models
    results,     \* results[b]: the handler's local results array
    callLog,     \* callLog[b]: the adapter invocations made for batch b, in order
    settled,     \* settled[b]: what each completed invocation of callLog[b] waited for
    response,    \* response[b]: <<>> until res.json is called, then <<body>>
    db,          \* the module variable db and its connection: "null", "opening",
                 \* "pragma", "creating" (initializeDatabase in progress), "open", "failed"
    tables,      \* the rows of each table of the database file, None when it does not exist
    server,      \* the process: "starting", "listening", "exit1"
    catalog,     \* the body of the latest GET /api/models response, None before the first
    now,         \* Date.now(), in ms since the process was started
    testId,      \* testId[b]: the testId field of the 200 response of batch b, None without one
    shutdown,    \* the SIGTERM / SIGINT handler: "none", "closing" (awaiting closeDatabase),
                 \* "rejected" (closeDatabase rejected and the handler threw)
    dbCall,      \* the latest getDatabase() call: None, or the state of db at the call
                 \* and whether it returned the handle or threw
    fePrompt,        \* App: the prompt state
    selectedModels,  \* App: the selectedModels state, an array of model ids
    availableModels, \* ModelSelector: the availableModels state
    loading,         \* App: the loading state
    feError,         \* App: the error state, None for null
    fetches,         \* the HTTP requests of ApiService.request that are in flight
    apiResult,       \* the latest settled ApiService.testPrompt call, None before the first
    feEvent,         \* the latest event the frontend handled: "none", "submit",
                     \* "toggle", "checkbox", "selectAll", "clearAll", "other"
    testResults      \* App: the testResults state

backVars == <<openai, anthropic, pc, req, idx, results, callLog, settled, response,
              db, tables, server, catalog, now, testId, shutdown, dbCall>>

frontVars == <<fePrompt, selectedModels, availableModels, loading, feError, fetches,
               apiResult, feEvent, testResults>>

vars == <<backVars, frontVars>>

----------------------------------------------------------------------------
(* Bounds *)

MaxModels == 3      \* longest models array of a request

MaxLiveModels == 3  \* longest models array of a request under LiveSpec

Batches == {1}      \* the requests the server handles in one behaviour

----------------------------------------------------------------------------
(* Optional values and strings *)

None == <<>>
Some(v) == <<v>>
IsSome(o) == Len(o) > 0
Get(o) == o[1]

Whitespace == {" ", "\t", "\n"}

StartsWith(s, p) ==
    /\ Len(s) >= Len(p)
    /\ SubSeq(s, 1, Len(p)) = p

Includes(s, p) ==
    \E k \in 0..(Len(s) - Len(p)) : SubSeq(s, k + 1, k + Len(p)) = p

RECURSIVE TrimStart(_)
TrimStart(s) ==
    IF s # <<>> /\ Head(s) \in Whitespace THEN TrimStart(Tail(s)) ELSE s

RECURSIVE TrimEnd(_)
TrimEnd(s) ==
    IF s # <<>> /\ s[Len(s)] \in Whitespace
    THEN TrimEnd(SubSeq(s, 1, Len(s) - 1))
    ELSE s

Trim(s) == TrimEnd(TrimStart(s))

----------------------------------------------------------------------------
(* Model ids and prompts of the requests *)

GptPrefix == <<"g", "p", "t", "-">>
GptInfix == <<"g", "p", "t">>
ClaudePrefix == <<"c", "l", "a", "u", "d", "e", "-">>

Gpt35Turbo == <<"g", "p", "t", "-", "3", ".", "5", "-", "t", "u", "r", "b", "o">>
Gpt4 == <<"g", "p", "t", "-", "4">>
Gpt4Turbo == <<"g", "p", "t", "-", "4", "-", "t", "u", "r", "b", "o">>
Claude3Sonnet == <<"c", "l", "a", "u", "d", "e", "-", "3", "-", "s", "o", "n", "n", "e", "t", "-", "2", "0", "2", "4", "0", "2", "2", "9">>
Claude3Opus == <<"c", "l", "a", "u", "d", "e", "-", "3", "-", "o", "p", "u", "s", "-", "2", "0", "2", "4", "0", "2", "2", "9">>
UnknownModel == <<"u", "n", "k", "n", "o", "w", "n", "-", "m", "o", "d", "e", "l">>
ChatGpt == <<"c", "h", "a", "t", "g", "p", "t">>
ClaudeGpt == <<"c", "l", "a", "u", "d", "e", "-", "g", "p", "t">>
ClaudeNoDash == <<"c", "l", "a", "u", "d", "e">>
UpperGpt == <<"G", "P", "T", "-", "4">>

ModelIds == {Gpt4, Claude3Opus, UnknownModel, ChatGpt, ClaudeGpt, ClaudeNoDash, UpperGpt, <<>>}

EmptyPrompt == <<>>
BlankPrompt == <<" ", "\t">>
Hello == <<"H", "i">>
PaddedHello == <<" ", "H", "i", "\n">>

----------------------------------------------------------------------------
(* Request bodies.  prompt is optional; models is absent, a value that is  *)
(* not an array, or an array of ids; the three numeric fields are optional *)
(* (temperature in tenths).                                                *)

AbsentModels == [kind |-> "absent", items |-> <<>>]
NonArrayModels == [kind |-> "string", items |-> <<>>]
ArrayModels(ms) == [kind |-> "array", items |-> ms]

Body(p, m, it, t, mt) ==
    [prompt |-> p, models |-> m, iterations |-> it, temperature |-> t, maxTokens |-> mt]

(* const { prompt, models, iterations = 1, temperature = 0.7, maxTokens = 500 } = req.body *)
DefaultOr(o, d) == IF IsSome(o) THEN Get(o) ELSE d

Destructure(body) ==
    [prompt |-> body.prompt,
     models |-> body.models,
     iterations |-> DefaultOr(body.iterations, 1),
     temperature |-> DefaultOr(body.temperature, 7),
     maxTokens |-> DefaultOr(body.maxTokens, 500)]

(* PromptRejected without the trim: only !prompt *)
PromptRejected_noTrim(prompt) ==
    \/ ~IsSome(prompt)
    \/ Get(prompt) = <<>>

(* !prompt || !prompt.trim() *)
PromptRejected(prompt) ==
    \/ ~IsSome(prompt)
    \/ Get(prompt) = <<>>
    \/ Trim(Get(prompt)) = <<>>

(* ModelsRejected without the length test *)
ModelsRejected_noLength(models) ==
    \/ models.kind = "absent"
    \/ models.kind # "array"

(* !models || !Array.isArray(models) || models.length === 0 *)
ModelsRejected(models) ==
    \/ models.kind = "absent"
    \/ models.kind # "array"
    \/ Len(models.items) = 0

----------------------------------------------------------------------------
(* Results.  One record shape for both variants; absent fields are None.   *)

Result(ok, model, provider, prompt, resp, err, code, rt, tok, cost) ==
    [success |-> ok, model |-> model, provider |-> provider, prompt |-> prompt,
     response |-> resp, error |-> err, errorCode |-> code,
     responseTime |-> rt, tokensTotal |-> tok, costTotal |-> cost]

Fulfilled(r) == [settled |-> "fulfilled", value |-> r]
Rejected(msg) == [settled |-> "rejected", value |-> msg]

(* Math.round(x) for x given in half units *)
MathRoundHalves(h) == (h + 1) \div 2

(* Math.round(s / n) for integers s >= 0, n > 0 *)
MathRoundDiv(s, n) == (2 * s + n) \div (2 * n)

(* x.toFixed(6): the nearest multiple of 1e-6, as a string *)
ToFixed6(v) == [str |-> TRUE, val |-> ((v + 5) \div 10) * 10]

(* parseFloat(x), of a number or of a numeric string *)
ParseFloat(c) == c.val

Num(v) == [str |-> FALSE, val |-> v]

----------------------------------------------------------------------------
(* OpenAI adapter *)

(* MODEL_PRICING, per token, in cost units *)
OpenaiPricing(model) ==
    IF model = Gpt4 \/ model = Gpt4Turbo
    THEN [input |-> 100, output |-> 300]
    ELSE [input |-> 10, output |-> 20]     \* gpt-3.5-turbo, and the || fallback

OpenaiMock(prompt, model, rnd) ==
    Fulfilled(Result(TRUE, model, "OpenAI", prompt, Some("mock"), None, None,
                     MathRoundHalves(rnd.delay),
                     Some(rnd.tokens + 50),
                     Some(ToFixed6(rnd.cost))))

(* usage = response.usage || {} ; every field read as (usage.f || 0) *)
UsageField(usage, f) == IF IsSome(usage) THEN Get(usage)[f] ELSE 0

OpenaiReal(prompt, model, up) ==
    LET pricing == OpenaiPricing(model)
        inputCost == UsageField(up.usage, "prompt_tokens") * pricing.input
        outputCost == UsageField(up.usage, "completion_tokens") * pricing.output
        totalCost == inputCost + outputCost
    IN  Fulfilled(Result(TRUE, model, "OpenAI", prompt, Some("text"), None, None,
                         up.elapsed,
                         Some(UsageField(up.usage, "total_tokens")),
                         Some(Num(ParseFloat(ToFixed6(totalCost))))))

(* OpenaiCatch rethrowing the error instead of returning a failure result *)
OpenaiCatch_rethrow(prompt, model, up) ==
    Rejected(up.message)

(* OpenaiCatch with a fixed text for error.message *)
OpenaiCatch_fixedMessage(prompt, model, up) ==
    Fulfilled(Result(FALSE, model, "OpenAI", prompt, None, Some("Request failed"), None,
                     up.elapsed, None, None))

OpenaiCatch(prompt, model, up) ==
    Fulfilled(Result(FALSE, model, "OpenAI", prompt, None, Some(up.message), None,
                     up.elapsed, None, None))

(* OpenaiTestPrompt without the mock branch: with no client the call     *)
(* openai.chat.completions.create throws and the catch returns a failure  *)
OpenaiTestPrompt_noMock(client, prompt, model, up) ==
    IF client = "null"
    THEN Fulfilled(Result(FALSE, model, "OpenAI", prompt, None,
                          Some("Cannot read properties of null"), None,
                          0, None, None))
    ELSE IF up.kind = "ok" THEN OpenaiReal(prompt, model, up)
    ELSE OpenaiCatch(prompt, model, up)

(* testPrompt(prompt, model, options): client is the handle at call time,  *)
(* up the outcome of what the call waits for.                              *)
OpenaiTestPrompt(client, prompt, model, up) ==
    IF client = "null" THEN OpenaiMock(prompt, model, up)
    ELSE IF up.kind = "ok" THEN OpenaiReal(prompt, model, up)
    ELSE OpenaiCatch(prompt, model, up)

----------------------------------------------------------------------------
(* Anthropic adapter: both branches are simulated *)

AnthropicMock(prompt, model, rnd) ==
    Fulfilled(Result(TRUE, model, "Anthropic", prompt, Some("mock"), None, None,
                     MathRoundHalves(rnd.delay),
                     Some(rnd.tokens + 60),
                     Some(ToFixed6(rnd.cost))))

AnthropicTestPrompt(client, prompt, model, up) ==
    IF client = "null" THEN AnthropicMock(prompt, model, up)
    ELSE AnthropicMock(prompt, model, up)

----------------------------------------------------------------------------
(* What an adapter call can wait for.                                      *)
(*  Simulated path: delay (half ms) = 1000 + Math.random() * 1500 ms (or   *)
(*  1200 + Math.random() * 1800), tokens = Math.floor(Math.random() * 200) *)
(*  (or * 250), cost = Math.random() * 0.01 $ (or * 0.02 $).               *)
(*  Real path: the upstream call resolves with a response, with or without *)
(*  usage, or rejects with an error.                                       *)
(*  elapsed is Date.now() at completion minus startTime, in ms: on the     *)
(*  simulated path the timer fires no earlier than its delay and as much   *)
(*  later as the event loop takes to run it.                               *)

MockOutcome(d, t, c, e) ==
    [kind |-> "mock", delay |-> d, tokens |-> t, cost |-> c, usage |-> None,
     elapsed |-> e, message |-> "none"]

OpenaiMockOutcomes ==
    {MockOutcome(2000, 0, 0, 1000), MockOutcome(2001, 199, 43217, 1004),
     MockOutcome(4999, 77, 99996, 2500)}

AnthropicMockOutcomes ==
    {MockOutcome(2400, 0, 0, 1200), MockOutcome(2401, 249, 199996, 1201),
     MockOutcome(5999, 101, 43217, 3017)}

Usage(p, c, t) == [prompt_tokens |-> p, completion_tokens |-> c, total_tokens |-> t]

RealOutcome(k, u, e, m) ==
    [kind |-> k, delay |-> 0, tokens |-> 0, cost |-> 0, usage |-> u,
     elapsed |-> e, message |-> m]

OpenaiRealOutcomes ==
    {RealOutcome("ok", None, 0, "none"),
     RealOutcome("ok", Some(Usage(10, 20, 30)), 851, "none"),
     RealOutcome("throw", None, 420, "Rate limit exceeded"),
     RealOutcome("throw", None, 3, "Cannot read properties of undefined")}

----------------------------------------------------------------------------
(* The handler of POST /api/prompts/test *)

(* Route with the claude- test first *)
Route_claudeFirst(modelId) ==
    IF StartsWith(modelId, ClaudePrefix) THEN "anthropic"
    ELSE IF StartsWith(modelId, GptPrefix) \/ Includes(modelId, GptInfix) THEN "openai"
    ELSE "unknown"

(* Route without the else-if branch of the Anthropic service *)
Route_noAnthropic(modelId) ==
    IF StartsWith(modelId, GptPrefix) \/ Includes(modelId, GptInfix) THEN "openai"
    ELSE "unknown"

(* Route with the OpenAI adapter as the fallback of the final else *)
Route_fallbackOpenai(modelId) ==
    IF StartsWith(modelId, GptPrefix) \/ Includes(modelId, GptInfix) THEN "openai"
    ELSE IF StartsWith(modelId, ClaudePrefix) THEN "anthropic"
    ELSE "openai"

(* the routing test of the dispatch loop *)
Route(modelId) ==
    IF StartsWith(modelId, GptPrefix) \/ Includes(modelId, GptInfix) THEN "openai"
    ELSE IF StartsWith(modelId, ClaudePrefix) THEN "anthropic"
    ELSE "unknown"

UnsupportedResult(modelId, prompt) ==
    Result(FALSE, modelId, "Unknown", prompt, None,
           Some(<<"Unsupported model: ", modelId>>), Some("UNSUPPORTED_MODEL"),
           0, None, None)

(* the arguments of one adapter invocation; upstream is present when the   *)
(* adapter issues the upstream API call (temperature || 0.7, maxTokens ||  *)
(* 500)                                                                    *)
OrDefault(v, d) == IF v = 0 THEN d ELSE v

Invocation(i, adapter, modelId, prompt, options) ==
    [idx |-> i, adapter |-> adapter, model |-> modelId, prompt |-> prompt,
     options |-> options,
     upstream |-> IF adapter = "openai" /\ openai # "null"
                  THEN Some([model |-> modelId,
                             temperature |-> OrDefault(options.temperature, 7),
                             max_tokens |-> OrDefault(options.maxTokens, 500)])
                  ELSE None]

(* results.filter(r => r.success), results.filter(r => !r.success) *)
SuccessfulResults(rs) == SelectSeq(rs, LAMBDA r : r.success)
(* FailedResults selecting on the errorCode field: r => r.errorCode *)
FailedResults_byErrorCode(rs) == SelectSeq(rs, LAMBDA r : IsSome(r.errorCode))

FailedResults(rs) == SelectSeq(rs, LAMBDA r : ~r.success)

(* r.metadata?.tokens?.total || 0 *)
TokensOrZero(r) == IF IsSome(r.tokensTotal) THEN Get(r.tokensTotal) ELSE 0

(* CostOrZero keeping numbers only: typeof total === 'number' ? total : 0 *)
CostOrZero_numbersOnly(r) ==
    IF IsSome(r.costTotal) /\ ~Get(r.costTotal).str
    THEN Get(r.costTotal)
    ELSE Num(0)

(* r.metadata?.cost?.total || 0 *)
CostOrZero(r) ==
    IF IsSome(r.costTotal) /\ (Get(r.costTotal).str \/ Get(r.costTotal).val # 0)
    THEN Get(r.costTotal)
    ELSE Num(0)

(* r.metadata?.responseTime || 0 *)
ResponseTimeOrZero(r) == r.responseTime

RECURSIVE ReduceSum(_, _)
ReduceSum(f, rs) ==
    IF rs = <<>> THEN 0 ELSE f[Head(rs)] + ReduceSum(f, Tail(rs))

(* TotalTokens stopping one element early *)
TotalTokens_dropLast(successful) ==
    ReduceSum([r \in {successful[k] : k \in 1..Len(successful)} |-> TokensOrZero(r)],
              SubSeq(successful, 1, Len(successful) - 1))

TotalTokens(successful) ==
    ReduceSum([r \in {successful[k] : k \in 1..Len(successful)} |-> TokensOrZero(r)],
              successful)

TotalCostRaw(successful) ==
    ReduceSum([r \in {successful[k] : k \in 1..Len(successful)} |-> ParseFloat(CostOrZero(r))],
              successful)

AvgResponseTime(successful) ==
    IF Len(successful) > 0
    THEN MathRoundDiv(ReduceSum([r \in {successful[k] : k \in 1..Len(successful)}
                                    |-> ResponseTimeOrZero(r)], successful),
                      Len(successful))
    ELSE 0

(* Summary with the mean response time taken over all the results *)
Summary_avgOverAll(models, rs) ==
    LET successfulResults == SuccessfulResults(rs)
        failedResults == FailedResults(rs)
    IN  [totalModels |-> Len(models),
         successfulModels |-> Len(successfulResults),
         failedModels |-> Len(failedResults),
         totalTokens |-> TotalTokens(successfulResults),
         totalCost |-> ParseFloat(ToFixed6(TotalCostRaw(successfulResults))),
         avgResponseTime |-> AvgResponseTime(rs)]

Summary(models, rs) ==
    LET successfulResults == SuccessfulResults(rs)
        failedResults == FailedResults(rs)
    IN  [totalModels |-> Len(models),
         successfulModels |-> Len(successfulResults),
         failedModels |-> Len(failedResults),
         totalTokens |-> TotalTokens(successfulResults),
         totalCost |-> ParseFloat(ToFixed6(TotalCostRaw(successfulResults))),
         avgResponseTime |-> AvgResponseTime(successfulResults)]

BadRequest(msg) ==
    [status |-> 400, success |-> FALSE, error |-> Some(msg), message |-> None,
     results |-> None, summary |-> None, iterations |-> None]

InternalError(msg) ==
    [status |-> 500, success |-> FALSE,
     error |-> Some("Internal server error during prompt testing"),
     message |-> Some(msg),
     results |-> None, summary |-> None, iterations |-> None]

(* OkResponse answering 500 when no model succeeded *)
OkResponse_errorWhenAllFail(r, rs) ==
    IF SuccessfulResults(rs) = <<>>
    THEN InternalError("All models failed")
    ELSE [status |-> 200, success |-> TRUE, error |-> None, message |-> None,
          results |-> Some(rs), summary |-> Some(Summary(r.models.items, rs)),
          iterations |-> Some(r.iterations)]

OkResponse(r, rs) ==
    [status |-> 200, success |-> TRUE, error |-> None, message |-> None,
     results |-> Some(rs), summary |-> Some(Summary(r.models.items, rs)),
     iterations |-> Some(r.iterations)]

(* RunLoop without the await: every adapter call is started and the       *)
(* pending promise itself is pushed as the result                          *)
RECURSIVE RunLoop_noAwait(_, _, _, _)
RunLoop_noAwait(r, i, rs, calls) ==
    IF i > Len(r.models.items)
    THEN [pc |-> "done", idx |-> i, results |-> rs, calls |-> calls,
          response |-> Some(OkResponse(r, rs))]
    ELSE LET modelId == r.models.items[i]
             options == [temperature |-> r.temperature, maxTokens |-> r.maxTokens]
         IN  IF Route(modelId) = "unknown"
             THEN RunLoop_noAwait(r, i + 1,
                                  Append(rs, UnsupportedResult(modelId, Get(r.prompt))), calls)
             ELSE RunLoop_noAwait(r, i + 1,
                                  Append(rs, Result(FALSE, modelId, "Promise", Get(r.prompt),
                                                    None, None, None, 0, None, None)),
                                  Append(calls, Invocation(i, Route(modelId), modelId,
                                                           Get(r.prompt), options)))

(* The dispatch loop from position i on, up to its next await or to the    *)
(* response: ids no adapter serves are answered on the spot, the first id  *)
(* an adapter serves starts that adapter's call.                           *)
RECURSIVE RunLoop(_, _, _, _)
RunLoop(r, i, rs, calls) ==
    IF i > Len(r.models.items)
    THEN [pc |-> "done", idx |-> i, results |-> rs, calls |-> calls,
          response |-> Some(OkResponse(r, rs))]
    ELSE LET modelId == r.models.items[i]
             options == [temperature |-> r.temperature, maxTokens |-> r.maxTokens]
         IN  IF Route(modelId) = "unknown"
             THEN RunLoop(r, i + 1, Append(rs, UnsupportedResult(modelId, Get(r.prompt))), calls)
             ELSE [pc |-> "awaiting", idx |-> i, results |-> rs,
                   calls |-> Append(calls, Invocation(i, Route(modelId), modelId,
                                                      Get(r.prompt), options)),
                   response |-> None]

(* the handler from its entry to its first await or to its response *)
HandleRequest(body) ==
    LET r == Destructure(body)
    IN  IF PromptRejected(r.prompt)
        THEN [pc |-> "done", idx |-> 1, results |-> <<>>, calls |-> <<>>,
              response |-> Some(BadRequest("Prompt is required and cannot be empty"))]
        ELSE IF ModelsRejected(r.models)
        THEN [pc |-> "done", idx |-> 1, results |-> <<>>, calls |-> <<>>,
              response |-> Some(BadRequest("At least one model must be selected"))]
        ELSE RunLoop(r, 1, <<>>, <<>>)

(* Resume with the result put in front of the array (unshift for push) *)
Resume_unshift(r, i, rs, calls, outcome) ==
    IF outcome.settled = "rejected"
    THEN [pc |-> "done", idx |-> i, results |-> rs, calls |-> calls,
          response |-> Some(InternalError(outcome.value))]
    ELSE RunLoop(r, i + 1, <<outcome.value>> \o rs, calls)

(* Resume calling the adapter again for a model whose result is a failure *)
Resume_retryFailed(r, i, rs, calls, outcome) ==
    IF outcome.settled = "rejected"
    THEN [pc |-> "done", idx |-> i, results |-> rs, calls |-> calls,
          response |-> Some(InternalError(outcome.value))]
    ELSE IF ~outcome.value.success
    THEN RunLoop(r, i, rs, calls)
    ELSE RunLoop(r, i + 1, Append(rs, outcome.value), calls)

(* Resume calling the adapter for the same model until it has been called *)
(* iterations times                                                        *)
Resume_iterate(r, i, rs, calls, outcome) ==
    IF outcome.settled = "rejected"
    THEN [pc |-> "done", idx |-> i, results |-> rs, calls |-> calls,
          response |-> Some(InternalError(outcome.value))]
    ELSE IF Cardinality({k \in 1..Len(calls) : calls[k].idx = i}) < r.iterations
    THEN RunLoop(r, i, rs, calls)
    ELSE RunLoop(r, i + 1, Append(rs, outcome.value), calls)

(* Resume returning without a response when the result is a failure *)
Resume_hangOnFailure(r, i, rs, calls, outcome) ==
    IF outcome.settled = "rejected"
    THEN [pc |-> "done", idx |-> i, results |-> rs, calls |-> calls,
          response |-> Some(InternalError(outcome.value))]
    ELSE IF ~outcome.value.success
    THEN [pc |-> "returned", idx |-> i, results |-> Append(rs, outcome.value),
          calls |-> calls, response |-> None]
    ELSE RunLoop(r, i + 1, Append(rs, outcome.value), calls)

(* the handler from the settling of the awaited adapter call on *)
Resume(r, i, rs, calls, outcome) ==
    IF outcome.settled = "rejected"
    THEN [pc |-> "done", idx |-> i, results |-> rs, calls |-> calls,
          response |-> Some(InternalError(outcome.value))]
    ELSE RunLoop(r, i + 1, Append(rs, outcome.value), calls)

----------------------------------------------------------------------------
(* The requests the clients send *)

SeqsUpTo(S, n) == UNION {[1..k -> S] : k \in 0..n}

Prompts == {None, Some(EmptyPrompt), Some(BlankPrompt), Some(Hello), Some(PaddedHello)}

ModelsFields ==
    {AbsentModels, NonArrayModels} \cup {ArrayModels(ms) : ms \in SeqsUpTo(ModelIds, MaxModels)}

OptionBodies ==
    {Body(Some(Hello), ArrayModels(<<Gpt4, Claude3Opus>>), it, t, mt) :
        it \in {None, Some(3)}, t \in {None, Some(0), Some(12)}, mt \in {None, Some(100)}}

Bodies ==
    {Body(p, m, None, None, None) : p \in Prompts, m \in ModelsFields} \cup OptionBodies

NoBody == Body(None, AbsentModels, None, None, None)

----------------------------------------------------------------------------
(* State machine *)

(* the database file before the first start, and after createTables *)
(* the initial state of the frontend: the useState initial values *)
FrontendInit ==
    /\ fePrompt = EmptyPrompt
    /\ selectedModels = <<Gpt35Turbo>>
    /\ availableModels = <<>>
    /\ loading = FALSE
    /\ feError = None
    /\ fetches = <<>>
    /\ apiResult = None
    /\ feEvent = "none"
    /\ testResults = <<>>

NoTables == [tests |-> None, results |-> None, test_summaries |-> None, models |-> None]

(* CREATE TABLE IF NOT EXISTS tests ...; CREATE TABLE IF NOT EXISTS results ... *)
CreateTables(t) ==
    [t EXCEPT !.tests = IF IsSome(@) THEN @ ELSE Some(<<>>),
              !.results = IF IsSome(@) THEN @ ELSE Some(<<>>)]

(* the state of a server that is listening: initializeDatabase has resolved *)
InitFor(B) ==
    /\ db = "open"
    /\ tables = CreateTables(NoTables)
    /\ server = "listening"
    /\ catalog = None
    /\ openai \in {"null", "client"}
    /\ anthropic \in {"null", "client"}
    /\ pc = [b \in B |-> "idle"]
    /\ req = [b \in B |-> NoBody]
    /\ idx = [b \in B |-> 1]
    /\ results = [b \in B |-> <<>>]
    /\ callLog = [b \in B |-> <<>>]
    /\ settled = [b \in B |-> <<>>]
    /\ response = [b \in B |-> None]
    /\ now = 0
    /\ testId = [b \in B |-> None]
    /\ shutdown = "none"
    /\ dbCall = None
    /\ FrontendInit

Init == InitFor(Batches)

(* testId: `test_${Date.now()}` *)
TestIdOf(ms) == "test_" \o ToString(ms)

(* the testId of a batch once the handler has run up to h: set when the    *)
(* handler sends its 200 response                                          *)
Stamp(resp, ms, old) ==
    IF IsSome(resp) /\ Get(resp).status = 200 THEN Some(TestIdOf(ms)) ELSE old

(* Goto inserting the test into the tests table when the response is sent *)
Goto_persistTest(b, h) ==
    /\ pc' = [pc EXCEPT ![b] = h.pc]
    /\ idx' = [idx EXCEPT ![b] = h.idx]
    /\ results' = [results EXCEPT ![b] = h.results]
    /\ callLog' = [callLog EXCEPT ![b] = h.calls]
    /\ response' = [response EXCEPT ![b] = h.response]
    /\ testId' = [testId EXCEPT ![b] = Stamp(h.response, now, @)]
    /\ now' = now
    /\ UNCHANGED frontVars
    /\ db' = db
    /\ tables' = IF IsSome(h.response) /\ IsSome(tables.tests)
                 THEN [tables EXCEPT !.tests = Some(Append(Get(@), "test"))]
                 ELSE tables

(* Goto with results kept in one array shared by all the requests (a       *)
(* module-level const results = [] instead of the handler's local)         *)
Goto_sharedResults(b, h) ==
    /\ pc' = [pc EXCEPT ![b] = h.pc]
    /\ idx' = [idx EXCEPT ![b] = h.idx]
    /\ results' = [c \in DOMAIN results |-> h.results]
    /\ callLog' = [callLog EXCEPT ![b] = h.calls]
    /\ response' = [response EXCEPT ![b] = h.response]
    /\ testId' = [testId EXCEPT ![b] = Stamp(h.response, now, @)]
    /\ now' = now
    /\ UNCHANGED frontVars
    /\ UNCHANGED <<db, tables>>

Goto(b, h) ==
    /\ pc' = [pc EXCEPT ![b] = h.pc]
    /\ idx' = [idx EXCEPT ![b] = h.idx]
    /\ results' = [results EXCEPT ![b] = h.results]
    /\ callLog' = [callLog EXCEPT ![b] = h.calls]
    /\ response' = [response EXCEPT ![b] = h.response]
    /\ testId' = [testId EXCEPT ![b] = Stamp(h.response, now, @)]
    /\ now' = now
    /\ UNCHANGED frontVars
    /\ UNCHANGED <<db, tables>>

(* a request arrives and its handler runs to its first await or response *)
Receive(b, bodies) ==
    /\ server = "listening"
    /\ pc[b] = "idle"
    /\ \E body \in bodies :
        /\ req' = [req EXCEPT ![b] = body]
        /\ Goto(b, HandleRequest(body))
    /\ UNCHANGED settled
    /\ UNCHANGED <<openai, anthropic, server, catalog, shutdown, dbCall>>

Awaited(b) == callLog[b][Len(callLog[b])]

(* the awaited openaiService.testPrompt call settles and the handler resumes *)
OpenaiSettle(b) ==
    /\ server = "listening"
    /\ pc[b] = "awaiting"
    /\ Awaited(b).adapter = "openai"
    /\ \E up \in (IF openai = "null" THEN OpenaiMockOutcomes ELSE OpenaiRealOutcomes) :
        /\ Goto(b, Resume(Destructure(req[b]), idx[b], results[b], callLog[b],
                          OpenaiTestPrompt(openai, Awaited(b).prompt, Awaited(b).model, up)))
        /\ settled' = [settled EXCEPT ![b] = Append(@, up)]
    /\ UNCHANGED <<openai, anthropic, req, server, catalog, shutdown, dbCall>>

(* the awaited anthropicService.testPrompt call settles and the handler resumes *)
AnthropicSettle(b) ==
    /\ server = "listening"
    /\ pc[b] = "awaiting"
    /\ Awaited(b).adapter = "anthropic"
    /\ \E up \in AnthropicMockOutcomes :
        /\ Goto(b, Resume(Destructure(req[b]), idx[b], results[b], callLog[b],
                          AnthropicTestPrompt(anthropic, Awaited(b).prompt, Awaited(b).model, up)))
        /\ settled' = [settled EXCEPT ![b] = Append(@, up)]
    /\ UNCHANGED <<openai, anthropic, req, server, catalog, shutdown, dbCall>>

Next ==
    \E b \in Batches :
        \/ Receive(b, Bodies)
        \/ OpenaiSettle(b)
        \/ AnthropicSettle(b)

Spec == Init /\ [][Next]_vars

(* Spec under the hypothesis that every adapter invocation completes: the  *)
(* timer of the simulated path fires, the upstream call resolves or        *)
(* rejects.                                                                *)
LiveBodies ==
    {Body(Some(Hello), ArrayModels(ms), None, None, None) :
        ms \in SeqsUpTo({Gpt4, Claude3Opus, UnknownModel}, MaxLiveModels) \ {<<>>}}

LiveNext ==
    \E b \in Batches :
        \/ Receive(b, LiveBodies)
        \/ OpenaiSettle(b)
        \/ AnthropicSettle(b)

LiveSpec ==
    /\ Init
    /\ [][LiveNext]_vars
    /\ \A b \in Batches : WF_vars(OpenaiSettle(b)) /\ WF_vars(AnthropicSettle(b))

----------------------------------------------------------------------------
(* The model catalog and GET /api/models *)

(* MODEL_PRICING of the Anthropic service, per token, in cost units *)
AnthropicPricing(model) ==
    IF model = Claude3Opus
    THEN [input |-> 150, output |-> 750]
    ELSE [input |-> 30, output |-> 150]

CatalogEntry(id, name, provider, maxTokens, cost) ==
    [id |-> id, name |-> name, provider |-> provider, maxTokens |-> maxTokens,
     costPer1kTokens |-> cost, status |-> "available"]

OpenaiGetAvailableModels ==
    <<CatalogEntry(Gpt35Turbo, "GPT-3.5 Turbo", "OpenAI", 4096, OpenaiPricing(Gpt35Turbo).output),
      CatalogEntry(Gpt4, "GPT-4", "OpenAI", 8192, OpenaiPricing(Gpt4).output)>>

AnthropicGetAvailableModels ==
    <<CatalogEntry(Claude3Sonnet, "Claude 3 Sonnet", "Anthropic", 200000,
                   AnthropicPricing(Claude3Sonnet).output),
      CatalogEntry(Claude3Opus, "Claude 3 Opus", "Anthropic", 200000,
                   AnthropicPricing(Claude3Opus).output)>>

(* ModelsResponse with count taken from the first catalog only *)
ModelsResponse_countOpenai(openaiModels, anthropicModels) ==
    LET allModels == openaiModels \o anthropicModels
    IN  [status |-> 200, success |-> TRUE, models |-> allModels,
         count |-> Len(openaiModels),
         providers |-> [openai |-> Len(openaiModels), anthropic |-> Len(anthropicModels)]]

(* the body of app.get('/api/models') *)
ModelsResponse(openaiModels, anthropicModels) ==
    LET allModels == openaiModels \o anthropicModels
    IN  [status |-> 200, success |-> TRUE, models |-> allModels,
         count |-> Len(allModels),
         providers |-> [openai |-> Len(openaiModels), anthropic |-> Len(anthropicModels)]]

GetModels ==
    /\ server = "listening"
    /\ catalog' = Some(ModelsResponse(OpenaiGetAvailableModels, AnthropicGetAvailableModels))
    /\ UNCHANGED <<openai, anthropic, pc, req, idx, results, callLog, settled, response,
                   db, tables, server, now, testId, shutdown, dbCall>>
    /\ UNCHANGED frontVars

----------------------------------------------------------------------------
(* Start-up: startServer awaits initializeDatabase, which has assigned db  *)
(* = new sqlite3.Database(...) and waits in turn for the open callback,    *)
(* the PRAGMA callback and the callback of createTables' exec.             *)

ExistingTables ==
    [tests |-> Some(<<"test_1700000000000">>), results |-> Some(<<"row">>),
     test_summaries |-> None, models |-> None]

ServerInit ==
    /\ db = "opening"
    /\ tables \in {NoTables, ExistingTables}
    /\ server = "starting"
    /\ catalog = None
    /\ openai \in {"null", "client"}
    /\ anthropic \in {"null", "client"}
    /\ pc = [b \in Batches |-> "idle"]
    /\ req = [b \in Batches |-> NoBody]
    /\ idx = [b \in Batches |-> 1]
    /\ results = [b \in Batches |-> <<>>]
    /\ callLog = [b \in Batches |-> <<>>]
    /\ settled = [b \in Batches |-> <<>>]
    /\ response = [b \in Batches |-> None]
    /\ now = 0
    /\ testId = [b \in Batches |-> None]
    /\ shutdown = "none"
    /\ dbCall = None
    /\ FrontendInit

(* one callback of initializeDatabase: with an error the promise rejects   *)
(* and startServer exits with code 1; after the last one the promise       *)
(* resolves and startServer calls app.listen                               *)
InitializeStep ==
    /\ server = "starting"
    /\ db \in {"opening", "pragma", "creating"}
    /\ \E ok \in BOOLEAN :
        IF ~ok
        THEN db' = "failed" /\ server' = "exit1" /\ tables' = tables
        ELSE IF db = "opening"
        THEN db' = "pragma" /\ server' = server /\ tables' = tables
        ELSE IF db = "pragma"
        THEN db' = "creating" /\ server' = server /\ tables' = tables
        ELSE db' = "open" /\ server' = "listening" /\ tables' = CreateTables(tables)
    /\ UNCHANGED <<openai, anthropic, pc, req, idx, results, callLog, settled, response,
                   catalog, now, testId, shutdown, dbCall>>
    /\ UNCHANGED frontVars

ServerBodies ==
    {Body(Some(Hello), ArrayModels(<<Gpt4, Claude3Opus>>), None, None, None),
     Body(Some(Hello), ArrayModels(<<Claude3Sonnet, UnknownModel, Gpt35Turbo>>), None, None, None),
     Body(Some(Hello), ArrayModels(<<>>), None, None, None),
     Body(None, ArrayModels(<<Gpt4>>), None, None, None)}

ServerNext ==
    \/ InitializeStep
    \/ GetModels
    \/ \E b \in Batches :
        \/ Receive(b, ServerBodies)
        \/ OpenaiSettle(b)
        \/ AnthropicSettle(b)

ServerSpec == ServerInit /\ [][ServerNext]_vars

----------------------------------------------------------------------------
(* The life of the process: the module is loaded (db = null), startServer  *)
(* is called, requests are served, SIGTERM or SIGINT asks for shutdown.    *)
(* A client of the database module may call getDatabase at any time.       *)

LifecycleInit ==
    /\ db = "null"
    /\ tables \in {NoTables, ExistingTables}
    /\ server = "loading"
    /\ catalog = None
    /\ openai \in {"null", "client"}
    /\ anthropic \in {"null", "client"}
    /\ pc = [b \in Batches |-> "idle"]
    /\ req = [b \in Batches |-> NoBody]
    /\ idx = [b \in Batches |-> 1]
    /\ results = [b \in Batches |-> <<>>]
    /\ callLog = [b \in Batches |-> <<>>]
    /\ settled = [b \in Batches |-> <<>>]
    /\ response = [b \in Batches |-> None]
    /\ now = 0
    /\ testId = [b \in Batches |-> None]
    /\ shutdown = "none"
    /\ dbCall = None
    /\ FrontendInit

(* StartServer calling app.listen before it awaits initializeDatabase *)
StartServer_listenFirst ==
    /\ server = "loading"
    /\ db' = "opening"
    /\ server' = "listening"
    /\ UNCHANGED <<openai, anthropic, pc, req, idx, results, callLog, settled, response,
                   tables, catalog, now, testId, shutdown, dbCall>>
    /\ UNCHANGED frontVars

(* startServer() up to its await: initializeDatabase runs the executor of  *)
(* its promise, which assigns db = new sqlite3.Database(...)               *)
StartServer ==
    /\ server = "loading"
    /\ db' = "opening"
    /\ server' = "starting"
    /\ UNCHANGED <<openai, anthropic, pc, req, idx, results, callLog, settled, response,
                   tables, catalog, now, testId, shutdown, dbCall>>
    /\ UNCHANGED frontVars

(* getDatabase(): if (!db) throw ...; return db *)
GetDatabaseResult(d) == IF d = "null" THEN "throws" ELSE "handle"

GetDatabase ==
    /\ server \in {"loading", "starting", "listening"}
    /\ dbCall' = Some([db |-> db, result |-> GetDatabaseResult(db)])
    /\ UNCHANGED <<openai, anthropic, pc, req, idx, results, callLog, settled, response,
                   db, tables, server, catalog, now, testId, shutdown>>
    /\ UNCHANGED frontVars

(* process.on('SIGTERM' / 'SIGINT'): the handler calls closeDatabase,      *)
(* which resolves at once when db is null (and the handler exits with 0)   *)
(* and calls db.close otherwise                                            *)
Signal ==
    /\ server \in {"starting", "listening"}
    /\ shutdown \in {"none", "rejected"}
    /\ IF db = "null"
       THEN server' = "exit0" /\ shutdown' = shutdown
       ELSE server' = server /\ shutdown' = "closing"
    /\ UNCHANGED <<openai, anthropic, pc, req, idx, results, callLog, settled, response,
                   db, tables, catalog, now, testId, dbCall>>
    /\ UNCHANGED frontVars

(* the callback of db.close: without an error db = null, the promise       *)
(* resolves and the handler calls process.exit(0); with an error the       *)
(* promise rejects, the await in the handler throws and process.exit(0) is *)
(* not reached: the rejection of the handler's promise is unhandled, which *)
(* ends the process with code 1 or leaves it running, depending on the     *)
(* runtime's unhandled-rejections mode                                     *)
CloseStep ==
    /\ server \in {"starting", "listening"}
    /\ shutdown = "closing"
    /\ \E ok \in BOOLEAN :
        IF ok
        THEN db' = "null" /\ server' = "exit0" /\ shutdown' = "none"
        ELSE /\ db' = db
             /\ shutdown' = "rejected"
             /\ server' \in {server, "exit1"}
    /\ UNCHANGED <<openai, anthropic, pc, req, idx, results, callLog, settled, response,
                   tables, catalog, now, testId, dbCall>>
    /\ UNCHANGED frontVars

LifecycleBodies ==
    {Body(Some(Hello), ArrayModels(<<Gpt4, Claude3Opus>>), None, None, None),
     Body(Some(Hello), ArrayModels(<<>>), None, None, None)}

LifecycleNext ==
    \/ StartServer
    \/ InitializeStep
    \/ GetDatabase
    \/ Signal
    \/ CloseStep
    \/ GetModels
    \/ \E b \in Batches :
        \/ Receive(b, LifecycleBodies)
        \/ OpenaiSettle(b)
        \/ AnthropicSettle(b)

LifecycleSpec == LifecycleInit /\ [][LifecycleNext]_vars

(* every callback that is due is eventually run *)
LifecycleLiveSpec ==
    /\ LifecycleSpec
    /\ WF_vars(StartServer)
    /\ WF_vars(InitializeStep)
    /\ WF_vars(CloseStep)

----------------------------------------------------------------------------
(* The frontend: ApiService (services/api.js) *)

(* what fetch(url, config) and response.json() lead to: fetch rejects,     *)
(* json() rejects, or a response with its ok flag, status and parsed body  *)
(* (None for a body that is the JSON null)                                 *)
ResponseData(success, error, rs, summary) ==
    [success |-> success, error |-> error, results |-> rs, summary |-> summary]

FetchRejects(message) ==
    [kind |-> "reject", message |-> message, ok |-> FALSE, status |-> 0,
     statusText |-> "", data |-> None]

JsonRejects(message) ==
    [kind |-> "badjson", message |-> message, ok |-> TRUE, status |-> 200,
     statusText |-> "OK", data |-> None]

FetchResponse(ok, status, statusText, data) ==
    [kind |-> "response", message |-> "", ok |-> ok, status |-> status,
     statusText |-> statusText, data |-> data]

(* the body of a 200 response of the server for one simulated gpt-4 result *)
ServerResults == <<OpenaiMock(Hello, Gpt4, MockOutcome(2000, 0, 0, 1000)).value>>
ServerSummary == Summary(<<Gpt4>>, ServerResults)

FetchOutcomes ==
    {FetchRejects("Failed to fetch"),
     FetchRejects(""),
     JsonRejects("Unexpected token < in JSON at position 0"),
     FetchResponse(FALSE, 400, "Bad Request",
                   Some(ResponseData(FALSE, Some("At least one model must be selected"),
                                     None, None))),
     FetchResponse(FALSE, 502, "Bad Gateway", Some(ResponseData(FALSE, None, None, None))),
     FetchResponse(FALSE, 500, "Internal Server Error", None),
     FetchResponse(TRUE, 200, "OK",
                   Some(ResponseData(TRUE, None, Some(ServerResults), Some(ServerSummary)))),
     FetchResponse(TRUE, 200, "OK", Some(ResponseData(TRUE, None, None, None))),
     FetchResponse(TRUE, 200, "OK", Some(ResponseData(FALSE, None, None, None))),
     FetchResponse(TRUE, 200, "OK", None)}

(* x || d for a string *)
TextOr(o, d) == IF IsSome(o) /\ Get(o) # "" THEN Get(o) ELSE d

(* ApiService.request after its fetch has settled: the data it returns or  *)
(* the message of the Error it throws                                      *)
ApiRequest(o) ==
    LET thrown ==
            IF o.kind \in {"reject", "badjson"} THEN Some(o.message)
            ELSE IF ~o.ok
            THEN IF ~IsSome(o.data)
                 THEN Some("Cannot read properties of null (reading 'error')")
                 ELSE Some(TextOr(Get(o.data).error,
                                  "HTTP " \o ToString(o.status) \o ": " \o o.statusText))
            ELSE None
    IN  IF IsSome(thrown)
        THEN [threw |-> TRUE, message |-> TextOr(thrown, "Network request failed"),
              data |-> None]
        ELSE [threw |-> FALSE, message |-> "", data |-> o.data]

(* promptData: { prompt, models, ...options } *)
PromptData(p, m, it, t, mt) ==
    [prompt |-> p, models |-> m, iterations |-> it, temperature |-> t, maxTokens |-> mt]

(* options.x || d *)
ApiOrDefault(o, d) == IF IsSome(o) /\ Get(o) # 0 THEN Get(o) ELSE d

ApiRequestBody(pd) ==
    Body(Some(Trim(Get(pd.prompt))), pd.models,
         Some(ApiOrDefault(pd.iterations, 1)),
         Some(ApiOrDefault(pd.temperature, 7)),
         Some(ApiOrDefault(pd.maxTokens, 500)))

(* the value testPrompt's catch returns; summary None is the object {} *)
ApiFailure(message) ==
    [success |-> FALSE, error |-> Some(message), results |-> <<>>, summary |-> None]

(* testPrompt up to its await: the validation, then the request *)
ApiTestPromptStart(pd) ==
    IF ~IsSome(pd.prompt) \/ Get(pd.prompt) = <<>> \/ Trim(Get(pd.prompt)) = <<>>
    THEN [sent |-> FALSE, body |-> NoBody, value |-> Fulfilled(ApiFailure("Prompt is required"))]
    ELSE IF pd.models.kind = "absent" \/ pd.models.kind # "array" \/ Len(pd.models.items) = 0
    THEN [sent |-> FALSE, body |-> NoBody,
          value |-> Fulfilled(ApiFailure("At least one model must be selected"))]
    ELSE [sent |-> TRUE, body |-> ApiRequestBody(pd), value |-> Fulfilled(ApiFailure(""))]

(* ApiTestPromptResume without the catch: an error of the request rejects  *)
(* the promise of testPrompt                                               *)
ApiTestPromptResume_noCatch(o) ==
    LET r == ApiRequest(o)
    IN  IF r.threw THEN Rejected(r.message)
        ELSE IF ~IsSome(r.data)
        THEN Rejected("Cannot read properties of null (reading 'success')")
        ELSE IF Get(r.data).success
        THEN Fulfilled([success |-> TRUE, error |-> None,
                        results |-> DefaultOr(Get(r.data).results, <<>>),
                        summary |-> Get(r.data).summary])
        ELSE Rejected(TextOr(Get(r.data).error, "Test failed"))

(* testPrompt from the settling of its request on *)
ApiTestPromptResume(o) ==
    LET r == ApiRequest(o)
    IN  IF r.threw THEN Fulfilled(ApiFailure(r.message))
        ELSE IF ~IsSome(r.data)
        THEN Fulfilled(ApiFailure("Cannot read properties of null (reading 'success')"))
        ELSE IF Get(r.data).success
        THEN Fulfilled([success |-> TRUE, error |-> None,
                        results |-> DefaultOr(Get(r.data).results, <<>>),
                        summary |-> Get(r.data).summary])
        ELSE Fulfilled(ApiFailure(TextOr(Get(r.data).error, "Test failed")))

Fetch(pd, body) == [call |-> pd, body |-> body]

RemoveAt(q, k) == SubSeq(q, 1, k - 1) \o SubSeq(q, k + 1, Len(q))

----------------------------------------------------------------------------
(* ApiService.testPrompt called by any client of the service *)

MaxFetches == 2

ApiPromptData ==
    {PromptData(p, m, None, t, None) :
        p \in {None, Some(EmptyPrompt), Some(BlankPrompt), Some(PaddedHello)},
        m \in {AbsentModels, NonArrayModels, ArrayModels(<<>>), ArrayModels(<<Gpt4>>)},
        t \in {None, Some(0)}}

ApiCall ==
    /\ Len(fetches) < MaxFetches
    /\ \E pd \in ApiPromptData :
        LET start == ApiTestPromptStart(pd)
        IN  IF start.sent
            THEN /\ fetches' = Append(fetches, Fetch(pd, start.body))
                 /\ apiResult' = apiResult
            ELSE /\ fetches' = fetches
                 /\ apiResult' = Some([call |-> pd, sent |-> FALSE, outcome |-> start.value])
    /\ UNCHANGED <<fePrompt, selectedModels, availableModels, loading, feError, feEvent,
                   testResults>>
    /\ UNCHANGED backVars

ApiSettle ==
    /\ \E k \in 1..Len(fetches) :
        \E o \in FetchOutcomes :
            /\ apiResult' = Some([call |-> fetches[k].call, sent |-> TRUE,
                                  outcome |-> ApiTestPromptResume(o)])
            /\ fetches' = RemoveAt(fetches, k)
    /\ UNCHANGED <<fePrompt, selectedModels, availableModels, loading, feError, feEvent,
                   testResults>>
    /\ UNCHANGED backVars

(* the frontend runs in a browser: the server's state plays no part *)
FrontInit ==
    /\ LifecycleInit
    /\ tables = NoTables
    /\ openai = "null"
    /\ anthropic = "null"

ApiNext == ApiCall \/ ApiSettle

ApiSpec == FrontInit /\ [][ApiNext]_vars

----------------------------------------------------------------------------
(* The frontend: App, PromptInput and ModelSelector.  State updates made   *)
(* in one event handler, or in one continuation of an async function, are  *)
(* applied together before the next event is handled.                      *)

AppState ==
    [prompt |-> fePrompt, selectedModels |-> selectedModels, loading |-> loading,
     error |-> feError, fetches |-> fetches, apiResult |-> apiResult,
     testResults |-> testResults]

(* handlePromptTest from the settling of the awaited apiService.testPrompt *)
(* on: the try, the catch (apiService.formatError) and the finally         *)
AfterTestPrompt(st, call, sent, outcome) ==
    LET done == [st EXCEPT !.loading = FALSE,
                           !.apiResult = Some([call |-> call, sent |-> sent,
                                               outcome |-> outcome])]
    IN  IF outcome.settled = "rejected"
        THEN [done EXCEPT !.error = Some(outcome.value)]
        ELSE IF outcome.value.success
        THEN [done EXCEPT !.testResults = outcome.value.results]
        ELSE [done EXCEPT !.error = Some(TextOr(outcome.value.error, "Test failed"))]

(* App.handlePromptTest up to its await *)
HandlePromptTest(st) ==
    IF Trim(st.prompt) = <<>>
    THEN [st EXCEPT !.error = Some("Please enter a prompt")]
    ELSE IF Len(st.selectedModels) = 0
    THEN [st EXCEPT !.error = Some("Please select at least one model")]
    ELSE LET pd == PromptData(Some(st.prompt), ArrayModels(st.selectedModels),
                              None, Some(7), Some(500))
             start == ApiTestPromptStart(pd)
             busy == [st EXCEPT !.loading = TRUE, !.error = None]
         IN  IF start.sent
             THEN [busy EXCEPT !.fetches = Append(@, Fetch(pd, start.body))]
             ELSE AfterTestPrompt(busy, pd, FALSE, start.value)

(* const maxChars = 4000 *)
maxChars == 4000

(* HandleSubmit without the !loading test *)
HandleSubmit_noLoadingGuard(st) ==
    IF Trim(st.prompt) # <<>> /\ ~(Len(st.prompt) > maxChars)
    THEN HandlePromptTest(st)
    ELSE st

(* PromptInput.handleSubmit, with onTest = handlePromptTest, the loading   *)
(* prop = App's loading and disabled = false                               *)
HandleSubmit(st) ==
    IF Trim(st.prompt) # <<>> /\ ~st.loading /\ ~FALSE /\ ~(Len(st.prompt) > maxChars)
    THEN HandlePromptTest(st)
    ELSE st

(* array.includes(x) *)
ArrayIncludes(arr, x) == \E k \in 1..Len(arr) : arr[k] = x

(* ToggleUpdater always appending the id *)
ToggleUpdater_alwaysAdd(prev, modelId) ==
    Append(prev, modelId)

(* the updater App.handleModelToggle passes to setSelectedModels *)
ToggleUpdater(prev, modelId) ==
    IF ArrayIncludes(prev, modelId)
    THEN SelectSeq(prev, LAMBDA id : id # modelId)
    ELSE Append(prev, modelId)

(* the updaters queued by one event handler, applied in order *)
RECURSIVE ApplyToggles(_, _)
ApplyToggles(prev, ids) ==
    IF ids = <<>> THEN prev
    ELSE ApplyToggles(ToggleUpdater(prev, Head(ids)), Tail(ids))

(* ModelSelector.handleModelToggle *)
HandleModelToggle(sel, modelId, disabled) ==
    IF ~disabled THEN ApplyToggles(sel, <<modelId>>) ELSE sel

(* String.prototype.toLowerCase on a provider name *)
ToLowerCase(name) ==
    CASE name = "OpenAI" -> "openai"
      [] name = "Anthropic" -> "anthropic"
      [] OTHER -> name

(* ModelSelector.handleSelectAllProvider: selectedModels is the prop of    *)
(* the render the event belongs to                                         *)
HandleSelectAllProvider(sel, avail, provider) ==
    LET ofProvider == SelectSeq(avail, LAMBDA model :
                                    ToLowerCase(model.provider) = ToLowerCase(provider))
        providerModels == [k \in 1..Len(ofProvider) |-> ofProvider[k].id]
    IN  ApplyToggles(sel, SelectSeq(providerModels, LAMBDA id : ~ArrayIncludes(sel, id)))

(* ModelSelector.handleDeselectAll *)
HandleDeselectAll(sel) == ApplyToggles(sel, sel)

SetApp(st) ==
    /\ fePrompt' = st.prompt
    /\ selectedModels' = st.selectedModels
    /\ loading' = st.loading
    /\ feError' = st.error
    /\ fetches' = st.fetches
    /\ apiResult' = st.apiResult
    /\ testResults' = st.testResults

(* the textarea's onChange, or a template chosen from the list *)
SetPrompt ==
    /\ \E p \in {EmptyPrompt, BlankPrompt, Hello} :
        SetApp([AppState EXCEPT !.prompt = p])
    /\ feEvent' = "other"
    /\ UNCHANGED availableModels
    /\ UNCHANGED backVars

(* the form's submit event *)
SubmitForm ==
    /\ SetApp(HandleSubmit(AppState))
    /\ feEvent' = "submit"
    /\ UNCHANGED availableModels
    /\ UNCHANGED backVars

(* the request of the pending handlePromptTest settles *)
FetchSettle ==
    /\ Len(fetches) > 0
    /\ \E o \in FetchOutcomes :
        SetApp(AfterTestPrompt([AppState EXCEPT !.fetches = Tail(@)],
                               fetches[1].call, TRUE, ApiTestPromptResume(o)))
    /\ feEvent' = "other"
    /\ UNCHANGED availableModels
    /\ UNCHANGED backVars

(* App.clearError *)
ClearError ==
    /\ SetApp([AppState EXCEPT !.error = None])
    /\ feEvent' = "other"
    /\ UNCHANGED availableModels
    /\ UNCHANGED backVars

(* ModelSelector.loadModels once apiService.getModels has returned the     *)
(* server's catalog                                                        *)
LoadModels ==
    /\ availableModels = <<>>
    /\ availableModels' =
           ModelsResponse(OpenaiGetAvailableModels, AnthropicGetAvailableModels).models
    /\ feEvent' = "other"
    /\ UNCHANGED <<fePrompt, selectedModels, loading, feError, fetches, apiResult,
                   testResults>>
    /\ UNCHANGED backVars

AvailableIds == {availableModels[k].id : k \in 1..Len(availableModels)}
AvailableProviders == {ToLowerCase(availableModels[k].provider) : k \in 1..Len(availableModels)}

(* a click on a model card outside its checkbox *)
ModelToggle ==
    /\ \E id \in AvailableIds :
        SetApp([AppState EXCEPT !.selectedModels = HandleModelToggle(@, id, loading)])
    /\ feEvent' = "toggle"
    /\ UNCHANGED availableModels
    /\ UNCHANGED backVars

(* a click on a model's checkbox: its onChange runs handleModelToggle and  *)
(* the click bubbles to the onClick of the card, which runs it again       *)
CheckboxClick ==
    /\ ~loading
    /\ \E id \in AvailableIds :
        SetApp([AppState EXCEPT !.selectedModels =
                    HandleModelToggle(HandleModelToggle(@, id, loading), id, loading)])
    /\ feEvent' = "checkbox"
    /\ UNCHANGED availableModels
    /\ UNCHANGED backVars

(* Select All of a provider; the button is disabled while loading *)
SelectAllProvider ==
    /\ ~loading
    /\ \E provider \in AvailableProviders :
        SetApp([AppState EXCEPT !.selectedModels =
                    HandleSelectAllProvider(@, availableModels, provider)])
    /\ feEvent' = "selectAll"
    /\ UNCHANGED availableModels
    /\ UNCHANGED backVars

(* Clear All; the button is disabled while loading or with nothing selected *)
DeselectAll ==
    /\ ~loading
    /\ Len(selectedModels) # 0
    /\ SetApp([AppState EXCEPT !.selectedModels = HandleDeselectAll(@)])
    /\ feEvent' = "clearAll"
    /\ UNCHANGED availableModels
    /\ UNCHANGED backVars

(* submitting prompts: the selection is the initial one or cleared *)
SubmitNext ==
    \/ SetPrompt
    \/ SubmitForm
    \/ FetchSettle
    \/ ClearError
    \/ DeselectAll

SubmitSpec == FrontInit /\ [][SubmitNext]_vars

(* selecting models *)
SelectNext ==
    \/ LoadModels
    \/ ModelToggle
    \/ CheckboxClick
    \/ SelectAllProvider
    \/ DeselectAll

SelectSpec == FrontInit /\ [][SelectNext]_vars

----------------------------------------------------------------------------
(* Two requests handled concurrently: their handlers interleave at the     *)
(* awaits.                                                                 *)
ConcBatches == {1, 2}

ConcBodies ==
    {Body(Some(Hello), ArrayModels(<<Gpt4, Claude3Opus>>), None, None, None),
     Body(Some(PaddedHello), ArrayModels(<<UnknownModel, Gpt4>>), None, None, None),
     Body(Some(Hello), ArrayModels(<<Claude3Opus, Claude3Opus>>), None, None, None),
     Body(Some(Hello), ArrayModels(<<>>), None, None, None)}

ConcInit == InitFor(ConcBatches)

ConcNext ==
    \E b \in ConcBatches :
        \/ Receive(b, ConcBodies)
        \/ OpenaiSettle(b)
        \/ AnthropicSettle(b)

ConcSpec == ConcInit /\ [][ConcNext]_vars

----------------------------------------------------------------------------
(* The clock: Date.now() advances between any two steps, or not at all     *)
(* when they run in the same millisecond.                                  *)

MaxClock == 2

Tick ==
    /\ now < MaxClock
    /\ now' = now + 1
    /\ UNCHANGED <<openai, anthropic, pc, req, idx, results, callLog, settled, response,
                   db, tables, server, catalog, testId, shutdown, dbCall>>
    /\ UNCHANGED frontVars

ClockBodies ==
    {Body(Some(Hello), ArrayModels(<<Gpt4>>), None, None, None),
     Body(Some(Hello), ArrayModels(<<UnknownModel>>), None, None, None),
     Body(Some(Hello), ArrayModels(<<Claude3Opus, Gpt4>>), None, None, None),
     Body(Some(BlankPrompt), ArrayModels(<<Gpt4>>), None, None, None)}

ClockNext ==
    \/ Tick
    \/ \E b \in ConcBatches :
        \/ Receive(b, ClockBodies)
        \/ OpenaiSettle(b)
        \/ AnthropicSettle(b)

ClockSpec == ConcInit /\ [][ClockNext]_vars

----------------------------------------------------------------------------
(* Vocabulary of the properties *)

Models(b) == req[b].models.items
Sent(b) == IsSome(response[b])
Resp(b) == Get(response[b])
Ok200(b) == pc[b] = "done" /\ Sent(b) /\ Resp(b).status = 200

(* a prompt that is missing, empty or made of whitespace only *)
BlankOrMissing(p) ==
    \/ ~IsSome(p)
    \/ \A k \in 1..Len(Get(p)) : Get(p)[k] \in Whitespace

(* a models field that is a non-empty array *)
NonEmptyList(m) == m.kind = "array" /\ Len(m.items) >= 1

WellFormed(b) == ~BlankOrMissing(req[b].prompt) /\ NonEmptyList(req[b].models)

(* an id that matches the gpt classifier, the claude- classifier *)
MatchesGpt(id) == \E k \in 1..Len(id) : k + 2 <= Len(id) /\ id[k] = "g" /\ id[k + 1] = "p" /\ id[k + 2] = "t"
MatchesClaude(id) == Len(id) >= 7 /\ \A k \in 1..7 : id[k] = ClaudePrefix[k]

CountWhere(rs, ok) == Cardinality({j \in 1..Len(rs) : rs[j].success = ok})

InvokedAt(b, j) == \E k \in 1..Len(callLog[b]) : callLog[b][k].idx = j
InvokedWith(b, j, adapter) ==
    \E k \in 1..Len(callLog[b]) : callLog[b][k].idx = j /\ callLog[b][k].adapter = adapter

----------------------------------------------------------------------------
(* C1: a request with a non-blank prompt and a non-empty models list gets  *)
(* exactly one result per entry of models, and the result at position i is *)
(* the one of models[i]: input order, duplicates kept, never sorted.       *)
C1_ResultsFollowModels ==
    \A b \in DOMAIN pc :
        (pc[b] # "idle" /\ WellFormed(b)) =>
            /\ Len(results[b]) <= Len(Models(b))
            /\ \A j \in 1..Len(results[b]) : results[b][j].model = Models(b)[j]
            /\ pc[b] = "done" =>
                /\ Ok200(b)
                /\ Resp(b).results = Some(results[b])
                /\ Len(results[b]) = Len(Models(b))

C1_Witness ==
    \E b \in DOMAIN pc :
        /\ Ok200(b)
        /\ Models(b) = <<UnknownModel, Gpt4, Gpt4>>
        /\ Len(Get(Resp(b).results)) = 3

(* C2: an adapter invocation whose upstream call fails becomes a failure   *)
(* result at the position of its model and the batch goes on: it ends with *)
(* one result per model and with successfulModels and failedModels         *)
(* counting the two kinds.                                                 *)
C2_FailureIsolated ==
    \A b \in DOMAIN pc :
        \A k \in 1..Len(settled[b]) :
            settled[b][k].kind = "throw" =>
                LET j == callLog[b][k].idx
                IN  /\ pc[b] \in {"awaiting", "done"}
                    /\ Len(results[b]) >= j
                    /\ ~results[b][j].success
                    /\ results[b][j].model = Models(b)[j]
                    /\ pc[b] = "awaiting" => idx[b] > j
                    /\ pc[b] = "done" =>
                        /\ Ok200(b)
                        /\ Len(Get(Resp(b).results)) = Len(Models(b))
                        /\ Get(Resp(b).summary).successfulModels = CountWhere(results[b], TRUE)
                        /\ Get(Resp(b).summary).failedModels = CountWhere(results[b], FALSE)

C2_Witness ==
    \E b \in DOMAIN pc :
        /\ Ok200(b)
        /\ Models(b) = <<Gpt4, Claude3Opus>>
        /\ settled[b][1].kind = "throw"
        /\ Len(Get(Resp(b).results)) = 2
        /\ ~Get(Resp(b).results)[1].success
        /\ Get(Resp(b).results)[2].success
        /\ Get(Resp(b).summary).successfulModels = 1
        /\ Get(Resp(b).summary).failedModels = 1

(* C3: an id matching neither classifier gets a failure result with        *)
(* errorCode UNSUPPORTED_MODEL and responseTime 0, and no adapter is       *)
(* invoked for it.                                                         *)
C3_UnsupportedNeverInvoked ==
    \A b \in DOMAIN pc :
        (pc[b] # "idle" /\ WellFormed(b)) =>
            \A j \in 1..Len(Models(b)) :
                (~MatchesGpt(Models(b)[j]) /\ ~MatchesClaude(Models(b)[j])) =>
                    /\ ~InvokedAt(b, j)
                    /\ (pc[b] = "done" \/ j < idx[b]) =>
                        /\ Len(results[b]) >= j
                        /\ ~results[b][j].success
                        /\ results[b][j].errorCode = Some("UNSUPPORTED_MODEL")
                        /\ results[b][j].responseTime = 0

C3_Witness ==
    \E b \in DOMAIN pc :
        /\ Ok200(b)
        /\ Models(b) = <<Gpt4, ClaudeNoDash, Claude3Opus>>
        /\ Len(callLog[b]) = 2
        /\ results[b][2].errorCode = Some("UNSUPPORTED_MODEL")

(* the loop of batch b has reached position j of models *)
Reached(b, j) ==
    \/ pc[b] = "done"
    \/ pc[b] = "awaiting" /\ j <= idx[b]

(* C4 as stated: an id containing "gpt" is dispatched to the OpenAI        *)
(* adapter, an id starting with "claude-" is dispatched to the Anthropic   *)
(* adapter, and an id recognised by either never gets UNSUPPORTED_MODEL.   *)
C4_Original ==
    \A b \in DOMAIN pc :
        (pc[b] # "idle" /\ WellFormed(b)) =>
            \A j \in 1..Len(Models(b)) :
                Reached(b, j) =>
                    /\ MatchesGpt(Models(b)[j]) => InvokedWith(b, j, "openai")
                    /\ MatchesClaude(Models(b)[j]) => InvokedWith(b, j, "anthropic")
                    /\ (MatchesGpt(Models(b)[j]) \/ MatchesClaude(Models(b)[j])) =>
                        (j <= Len(results[b]) =>
                            results[b][j].errorCode # Some("UNSUPPORTED_MODEL"))

(* C4 (amended): an id containing "gpt" is dispatched to the OpenAI        *)
(* adapter whatever its prefix; an id starting with "claude-" that does    *)
(* not contain "gpt" is dispatched to the Anthropic adapter; each such id  *)
(* is invoked once, on that adapter only, and never gets                   *)
(* UNSUPPORTED_MODEL.                                                      *)
C4_GptFirstRouting ==
    \A b \in DOMAIN pc :
        (pc[b] # "idle" /\ WellFormed(b)) =>
            \A j \in 1..Len(Models(b)) :
                Reached(b, j) =>
                    /\ MatchesGpt(Models(b)[j]) =>
                        InvokedWith(b, j, "openai") /\ ~InvokedWith(b, j, "anthropic")
                    /\ (MatchesClaude(Models(b)[j]) /\ ~MatchesGpt(Models(b)[j])) =>
                        InvokedWith(b, j, "anthropic") /\ ~InvokedWith(b, j, "openai")
                    /\ (MatchesGpt(Models(b)[j]) \/ MatchesClaude(Models(b)[j])) =>
                        (j <= Len(results[b]) =>
                            results[b][j].errorCode # Some("UNSUPPORTED_MODEL"))

C4_Witness ==
    \E b \in DOMAIN pc :
        /\ Ok200(b)
        /\ Models(b) = <<ClaudeGpt, Claude3Opus, ChatGpt>>
        /\ callLog[b][1].adapter = "openai"
        /\ callLog[b][2].adapter = "anthropic"
        /\ callLog[b][3].adapter = "openai"
        /\ \A j \in 1..3 : results[b][j].errorCode = None

(* C5: a request whose prompt is missing, empty or whitespace-only is      *)
(* answered 400 with success = false; no adapter is invoked and the        *)
(* response carries neither results nor summary, whatever models is.       *)
C5_BlankPromptRejected ==
    \A b \in DOMAIN pc :
        (pc[b] # "idle" /\ BlankOrMissing(req[b].prompt)) =>
            /\ pc[b] = "done"
            /\ Sent(b)
            /\ Resp(b).status = 400
            /\ Resp(b).success = FALSE
            /\ Resp(b).results = None
            /\ Resp(b).summary = None
            /\ callLog[b] = <<>>
            /\ results[b] = <<>>

C5_Witness ==
    \E b \in DOMAIN pc :
        /\ pc[b] = "done"
        /\ req[b].prompt = Some(BlankPrompt)
        /\ req[b].models = ArrayModels(<<Gpt4, Claude3Opus>>)
        /\ Resp(b).status = 400

RECURSIVE SumTo(_, _)
SumTo(f, n) == IF n = 0 THEN 0 ELSE SumTo(f, n - 1) + f[n]

(* over the successful results of rs: their number, and the sums of their  *)
(* cost totals (a string cost read as the number it denotes), response     *)
(* times and token totals (0 when absent)                                  *)
SuccessCount(rs) == CountWhere(rs, TRUE)
SuccessCost(rs) ==
    SumTo([j \in 1..Len(rs) |->
            IF rs[j].success /\ IsSome(rs[j].costTotal) THEN Get(rs[j].costTotal).val ELSE 0],
          Len(rs))
SuccessTime(rs) ==
    SumTo([j \in 1..Len(rs) |-> IF rs[j].success THEN rs[j].responseTime ELSE 0], Len(rs))
SuccessTokens(rs) ==
    SumTo([j \in 1..Len(rs) |->
            IF rs[j].success /\ IsSome(rs[j].tokensTotal) THEN Get(rs[j].tokensTotal) ELSE 0],
          Len(rs))

RespResults(b) == Get(Resp(b).results)
RespSummary(b) == Get(Resp(b).summary)

(* C7: in a successful batch response totalModels is the number of results *)
(* and successfulModels + failedModels = totalModels.                      *)
C7_SummaryCounts ==
    \A b \in DOMAIN pc :
        Ok200(b) =>
            /\ RespSummary(b).totalModels = Len(RespResults(b))
            /\ RespSummary(b).successfulModels + RespSummary(b).failedModels
                   = RespSummary(b).totalModels

C7_Witness ==
    \E b \in DOMAIN pc :
        /\ Ok200(b)
        /\ Len(RespResults(b)) = 3
        /\ \E j \in 1..3 : RespResults(b)[j].success
        /\ \E j \in 1..3 : ~RespResults(b)[j].success /\ RespResults(b)[j].errorCode = None
        /\ \E j \in 1..3 : RespResults(b)[j].errorCode = Some("UNSUPPORTED_MODEL")
        /\ RespSummary(b).successfulModels = 1
        /\ RespSummary(b).failedModels = 2

(* C8: totalCost is the sum of the cost totals of the successful results,  *)
(* rounded to 6 decimal places (a multiple of 1e-6 at most half of 1e-6    *)
(* away from the sum); with no success totalCost and avgResponseTime are 0.*)
C8_TotalCost ==
    \A b \in DOMAIN pc :
        Ok200(b) =>
            LET sum == SuccessCost(RespResults(b))
                t == RespSummary(b).totalCost
            IN  /\ t % 10 = 0
                /\ sum - 5 < t
                /\ t <= sum + 5
                /\ SuccessCount(RespResults(b)) = 0 =>
                    t = 0 /\ RespSummary(b).avgResponseTime = 0

C8_Witness ==
    \E b \in DOMAIN pc :
        /\ Ok200(b)
        /\ \E j \in 1..Len(RespResults(b)) :
            /\ RespResults(b)[j].success
            /\ Get(RespResults(b)[j].costTotal).str
            /\ Get(RespResults(b)[j].costTotal).val > 0
        /\ \E j \in 1..Len(RespResults(b)) :
            /\ RespResults(b)[j].success
            /\ ~Get(RespResults(b)[j].costTotal).str
            /\ Get(RespResults(b)[j].costTotal).val > 0
        /\ \E j \in 1..Len(RespResults(b)) : ~RespResults(b)[j].success
        /\ RespSummary(b).totalCost > 0

C8_WitnessNoSuccess ==
    \E b \in DOMAIN pc :
        /\ Ok200(b)
        /\ SuccessCount(RespResults(b)) = 0
        /\ \E j \in 1..Len(RespResults(b)) : RespResults(b)[j].responseTime > 0

(* C9: avgResponseTime is the mean of responseTime over the successful     *)
(* results rounded to the nearest integer, and 0 when there is none; the   *)
(* response times of failed results do not enter it.                       *)
C9_AvgResponseTime ==
    \A b \in DOMAIN pc :
        Ok200(b) =>
            LET n == SuccessCount(RespResults(b))
                sum == SuccessTime(RespResults(b))
                avg == RespSummary(b).avgResponseTime
            IN  /\ n = 0 => avg = 0
                /\ n > 0 => /\ 2 * n * avg - 2 * sum <= n
                            /\ 2 * sum - 2 * n * avg <= n

C9_Witness ==
    \E b \in DOMAIN pc :
        /\ Ok200(b)
        /\ SuccessCount(RespResults(b)) = 2
        /\ (2 * SuccessTime(RespResults(b))) % 4 = 2
        /\ \E j \in 1..Len(RespResults(b)) :
            ~RespResults(b)[j].success /\ RespResults(b)[j].responseTime > 0
        /\ 2 * RespSummary(b).avgResponseTime = SuccessTime(RespResults(b)) + 1

(* C10: totalTokens is the sum of the token totals of the successful       *)
(* results, a successful result without a token total counting for 0.      *)
C10_TotalTokens ==
    \A b \in DOMAIN pc :
        Ok200(b) => RespSummary(b).totalTokens = SuccessTokens(RespResults(b))

C10_Witness ==
    \E b \in DOMAIN pc :
        /\ Ok200(b)
        /\ \E k \in 1..Len(settled[b]) :
            settled[b][k].kind = "ok" /\ settled[b][k].usage = None
        /\ \E j \in 1..Len(RespResults(b)) : ~RespResults(b)[j].success
        /\ SuccessCount(RespResults(b)) = 2
        /\ RespSummary(b).totalTokens > 0

(* the adapter invocations of batch b that have not completed *)
InFlight(b) == Len(callLog[b]) - Len(settled[b])

(* C11: within a batch the adapter invocations are sequential and in input *)
(* order: at most one is in flight, its position is the loop's position,   *)
(* every earlier position has its result, and the positions invoked grow.  *)
C11_SequentialInOrder ==
    \A b \in DOMAIN pc :
        /\ InFlight(b) \in {0, 1}
        /\ InFlight(b) = 1 <=> pc[b] = "awaiting"
        /\ \A k \in 1..Len(callLog[b]) :
            /\ callLog[b][k].model = Models(b)[callLog[b][k].idx]
            /\ k > 1 => callLog[b][k - 1].idx < callLog[b][k].idx
            /\ k > Len(settled[b]) =>
                /\ callLog[b][k].idx = idx[b]
                /\ Len(results[b]) = idx[b] - 1
            /\ k <= Len(settled[b]) => Len(results[b]) >= callLog[b][k].idx

C11_Witness ==
    \E b \in DOMAIN pc :
        /\ pc[b] = "awaiting"
        /\ Models(b) = <<Gpt4, UnknownModel, Claude3Opus>>
        /\ Len(callLog[b]) = 2
        /\ Len(settled[b]) = 1
        /\ callLog[b][2].idx = 3
        /\ Len(results[b]) = 2

(* C12: only a validation failure (400) or an internal exception (500)     *)
(* aborts a request.  A request with a non-blank prompt and a non-empty    *)
(* models list is answered 200 also when every model fails: one failure    *)
(* entry per model and failedModels = totalModels.                         *)
C12_AllFailedStillOk ==
    \A b \in DOMAIN pc :
        pc[b] = "done" =>
            /\ Sent(b)
            /\ Resp(b).status \in {200, 400, 500}
            /\ Resp(b).status = 400 => ~WellFormed(b)
            /\ WellFormed(b) =>
                /\ Resp(b).status = 200
                /\ Resp(b).success
                /\ SuccessCount(RespResults(b)) = 0 =>
                    /\ Len(RespResults(b)) = Len(Models(b))
                    /\ \A j \in 1..Len(RespResults(b)) :
                        /\ ~RespResults(b)[j].success
                        /\ RespResults(b)[j].model = Models(b)[j]
                    /\ RespSummary(b).failedModels = RespSummary(b).totalModels
                    /\ RespSummary(b).failedModels = Len(Models(b))
                    /\ RespSummary(b).successfulModels = 0

C12_Witness ==
    \E b \in DOMAIN pc :
        /\ Ok200(b)
        /\ Models(b) = <<Gpt4, UnknownModel>>
        /\ settled[b][1].kind = "throw"
        /\ RespSummary(b).failedModels = 2
        /\ RespSummary(b).totalModels = 2

(* C13: an adapter's testPrompt never raises past its boundary: every      *)
(* completed invocation has resolved to a result value at its position,    *)
(* and when the upstream call failed that value is the failure variant     *)
(* carrying the message of the underlying error.                           *)
C13_AdapterNeverRejects ==
    \A b \in DOMAIN pc :
        /\ Sent(b) => Resp(b).status # 500
        /\ \A k \in 1..Len(settled[b]) :
            LET j == callLog[b][k].idx
            IN  /\ Len(results[b]) >= j
                /\ results[b][j].provider =
                       (IF callLog[b][k].adapter = "openai" THEN "OpenAI" ELSE "Anthropic")
                /\ results[b][j].prompt = callLog[b][k].prompt
                /\ settled[b][k].kind = "throw" =>
                    /\ results[b][j].success = FALSE
                    /\ results[b][j].error = Some(settled[b][k].message)
                /\ settled[b][k].kind # "throw" =>
                    /\ results[b][j].success = TRUE
                    /\ results[b][j].error = None

C13_Witness ==
    \E b \in DOMAIN pc :
        /\ Len(settled[b]) = 2
        /\ settled[b][1].kind = "throw"
        /\ settled[b][1].message = "Cannot read properties of undefined"
        /\ settled[b][2].kind = "throw"
        /\ settled[b][2].message = "Rate limit exceeded"
        /\ results[b][callLog[b][2].idx].error = Some("Rate limit exceeded")

(* the entries of models up to position n that a classifier recognises *)
Recognised(id) == MatchesGpt(id) \/ MatchesClaude(id)
RecognisedUpTo(ms, n) == {j \in 1..n : j <= Len(ms) /\ Recognised(ms[j])}

(* C14: no retries: each entry of models that a classifier recognises      *)
(* causes exactly one adapter invocation, also when it fails, and the      *)
(* other entries none; a finished batch has made as many invocations as    *)
(* models has recognised entries.                                          *)
C14_OneInvocationPerEntry ==
    \A b \in DOMAIN pc :
        (pc[b] # "idle" /\ WellFormed(b)) =>
            /\ \A j \in 1..Len(Models(b)) :
                Cardinality({k \in 1..Len(callLog[b]) : callLog[b][k].idx = j})
                    = (IF Recognised(Models(b)[j]) /\ Reached(b, j) THEN 1 ELSE 0)
            /\ pc[b] = "done" =>
                Len(callLog[b]) = Cardinality(RecognisedUpTo(Models(b), Len(Models(b))))

C14_Witness ==
    \E b \in DOMAIN pc :
        /\ Ok200(b)
        /\ Models(b) = <<Gpt4, UnknownModel, Gpt4>>
        /\ settled[b][1].kind = "throw"
        /\ Len(callLog[b]) = 2

(* C15: no timeout, no cancellation.  If every adapter invocation          *)
(* completes, a batch waiting for one eventually sends its response.       *)
(* While the invocation for models[i] has not completed the batch has sent *)
(* nothing and has invoked no adapter for a later position, and only the   *)
(* completion of that invocation lets the batch respond or invoke again.   *)
C15_NoTimeoutNoCancel ==
    /\ \A b \in Batches : (pc[b] = "awaiting") ~> (pc[b] = "done" /\ Sent(b))
    /\ [](\A b \in Batches :
            pc[b] = "awaiting" =>
                /\ ~Sent(b)
                /\ \A k \in 1..Len(callLog[b]) : callLog[b][k].idx <= idx[b])
    /\ [][\A b \in Batches :
            (pc[b] = "awaiting" /\ (response'[b] # response[b] \/ callLog'[b] # callLog[b]))
                => Len(settled'[b]) = Len(settled[b]) + 1]_vars

C15_Witness ==
    \E b \in DOMAIN pc :
        /\ pc[b] = "awaiting"
        /\ Models(b) = <<Claude3Opus, Gpt4, Gpt4>>
        /\ idx[b] = 2
        /\ Len(settled[b]) = 1
        /\ ~Sent(b)
        /\ ~InvokedAt(b, 3)

(* what the handler of a request with this body is and has produced when   *)
(* it runs alone and its adapter invocations complete with outs, in order  *)
RECURSIVE Alone(_, _)
Alone(body, outs) ==
    IF outs = <<>>
    THEN HandleRequest(body)
    ELSE LET h == Alone(body, SubSeq(outs, 1, Len(outs) - 1))
             call == h.calls[Len(h.calls)]
             up == outs[Len(outs)]
         IN  Resume(Destructure(body), h.idx, h.results, h.calls,
                    IF call.adapter = "openai"
                    THEN OpenaiTestPrompt(openai, call.prompt, call.model, up)
                    ELSE AnthropicTestPrompt(anthropic, call.prompt, call.model, up))

(* C16: batches handled concurrently do not interfere: each batch has one  *)
(* result per model of its own request, in its own order, its summary is   *)
(* computed from its own results, and its state and response are those of  *)
(* the same request run alone with the same adapter outcomes; the provider *)
(* client handles never change after start-up.                             *)
C16_BatchesIndependent ==
    /\ [](\A b \in DOMAIN pc :
            pc[b] # "idle" =>
                /\ \A j \in 1..Len(results[b]) :
                    /\ j <= Len(Models(b))
                    /\ results[b][j].model = Models(b)[j]
                    /\ results[b][j].prompt = Get(req[b].prompt)
                /\ Ok200(b) =>
                    /\ RespResults(b) = results[b]
                    /\ Len(RespResults(b)) = Len(Models(b))
                    /\ RespSummary(b).totalModels = Len(Models(b))
                    /\ RespSummary(b).successfulModels = SuccessCount(results[b])
                    /\ RespSummary(b).totalTokens = SuccessTokens(results[b])
                /\ LET h == Alone(req[b], settled[b])
                   IN  /\ pc[b] = h.pc
                       /\ idx[b] = h.idx
                       /\ results[b] = h.results
                       /\ callLog[b] = h.calls
                       /\ response[b] = h.response)
    /\ [][openai' = openai /\ anthropic' = anthropic]_vars

C16_Witness ==
    /\ DOMAIN pc = {1, 2}
    /\ pc[1] = "awaiting"
    /\ pc[2] = "awaiting"
    /\ Len(settled[1]) = 1
    /\ Len(settled[2]) = 1
    /\ Models(1) = <<Gpt4, Claude3Opus>>
    /\ Models(2) = <<Claude3Opus, Claude3Opus>>
    /\ results[1] # results[2]

(* C17: handling prompt-test and model-list requests leaves the database   *)
(* alone: a step of a request handler changes neither the db handle nor    *)
(* the contents of the tests, results, test_summaries and models tables.   *)
C17_RequestsLeaveDatabase ==
    /\ [][(\/ pc' # pc
           \/ req' # req
           \/ results' # results
           \/ callLog' # callLog
           \/ settled' # settled
           \/ response' # response
           \/ catalog' # catalog)
          => (db' = db /\ tables' = tables)]_vars
    /\ []((\E b \in Batches : pc[b] # "idle") \/ IsSome(catalog)
            => db = "open" /\ tables \in {CreateTables(NoTables), CreateTables(ExistingTables)})

C17_Witness ==
    /\ IsSome(catalog)
    /\ \E b \in DOMAIN pc : Ok200(b) /\ Len(settled[b]) = 2
    /\ tables = CreateTables(ExistingTables)
    /\ db = "open"

(* C18: GET /models returns the OpenAI catalog followed by the Anthropic   *)
(* catalog, count is the number of returned models, the per-provider       *)
(* numbers add up to count and each is the number of returned entries of   *)
(* that provider.                                                          *)
C18_ModelsResponse ==
    IsSome(catalog) =>
        LET c == Get(catalog)
            ofProvider(p) == Cardinality({j \in 1..Len(c.models) : c.models[j].provider = p})
        IN  /\ c.success
            /\ c.models = OpenaiGetAvailableModels \o AnthropicGetAvailableModels
            /\ c.count = Len(c.models)
            /\ c.providers.openai + c.providers.anthropic = c.count
            /\ c.providers.openai = ofProvider("OpenAI")
            /\ c.providers.anthropic = ofProvider("Anthropic")

C18_Witness ==
    /\ IsSome(catalog)
    /\ Get(catalog).count = 4
    /\ Get(catalog).providers = [openai |-> 2, anthropic |-> 2]
    /\ Get(catalog).models[3].id = Claude3Sonnet

(* C19: an omitted temperature, maxTokens or iterations takes the value    *)
(* 0.7, 500 or 1, and a supplied temperature or maxTokens is the value the *)
(* adapter passes to the upstream call.                                    *)
C19_Original ==
    \A b \in DOMAIN pc :
        (pc[b] # "idle" /\ WellFormed(b)) =>
            /\ Destructure(req[b]).iterations = DefaultOr(req[b].iterations, 1)
            /\ \A k \in 1..Len(callLog[b]) :
                /\ callLog[b][k].options.temperature = DefaultOr(req[b].temperature, 7)
                /\ callLog[b][k].options.maxTokens = DefaultOr(req[b].maxTokens, 500)
                /\ IsSome(callLog[b][k].upstream) =>
                    /\ Get(callLog[b][k].upstream).temperature = DefaultOr(req[b].temperature, 7)
                    /\ Get(callLog[b][k].upstream).max_tokens = DefaultOr(req[b].maxTokens, 500)

(* the handle of the adapter that invocation c goes to *)
ClientOf(c) == IF c.adapter = "openai" THEN openai ELSE anthropic

(* C20: an adapter whose provider has no credential makes no upstream call *)
(* and, after its artificial delay, returns a success result with the      *)
(* provider, a response text, a token total and a cost total; the batch    *)
(* counts it among successfulModels.                                       *)
C20_SimulatedSuccess ==
    \A b \in DOMAIN pc :
        \A k \in 1..Len(callLog[b]) :
            ClientOf(callLog[b][k]) = "null" =>
                /\ callLog[b][k].upstream = None
                /\ k <= Len(settled[b]) =>
                    LET j == callLog[b][k].idx
                        r == results[b][j]
                    IN  /\ settled[b][k].kind = "mock"
                        /\ r.success
                        /\ r.provider = (IF callLog[b][k].adapter = "openai"
                                         THEN "OpenAI" ELSE "Anthropic")
                        /\ r.model = callLog[b][k].model
                        /\ IsSome(r.response)
                        /\ IsSome(r.tokensTotal)
                        /\ IsSome(r.costTotal)
                        /\ r.error = None
                        /\ r.responseTime = MathRoundHalves(settled[b][k].delay)
                        /\ r.responseTime >= 1000
                        /\ pc[b] = "done" =>
                            /\ Ok200(b)
                            /\ RespResults(b)[j] = r
                            /\ RespSummary(b).successfulModels = SuccessCount(results[b])
                            /\ RespSummary(b).successfulModels >= 1

C20_Witness ==
    \E b \in DOMAIN pc :
        /\ openai = "null"
        /\ anthropic = "null"
        /\ Ok200(b)
        /\ Models(b) = <<Gpt4, Claude3Opus, UnknownModel>>
        /\ Len(settled[b]) = 2
        /\ RespSummary(b).successfulModels = 2
        /\ RespSummary(b).failedModels = 1

(* C21: every result an adapter returns, success or failure, real or       *)
(* simulated, reports as responseTime the non-negative whole number of ms  *)
(* that elapsed between the start of the adapter call and its completion.  *)
C21_Original ==
    \A b \in DOMAIN pc :
        \A k \in 1..Len(settled[b]) :
            LET r == results[b][callLog[b][k].idx]
            IN  /\ r.responseTime \in Nat
                /\ r.responseTime = settled[b][k].elapsed

(* the adapter of a catalog entry's provider *)
AdapterOf(provider) == IF provider = "OpenAI" THEN "openai" ELSE "anthropic"

(* the catalog entries whose id is the given model id *)
CatalogEntriesOf(id) ==
    LET all == OpenaiGetAvailableModels \o AnthropicGetAvailableModels
    IN  {all[n] : n \in {n \in 1..Len(all) : all[n].id = id}}

(* C22: every id that GET /models lists is routed by the dispatch loop to  *)
(* the adapter of its entry's provider, and a request for it is answered   *)
(* by that adapter, never with UNSUPPORTED_MODEL.                          *)
C22_CatalogRoutable ==
    /\ IsSome(catalog) =>
        \A n \in 1..Len(Get(catalog).models) :
            LET entry == Get(catalog).models[n]
            IN  /\ entry.provider \in {"OpenAI", "Anthropic"}
                /\ Route(entry.id) = AdapterOf(entry.provider)
    /\ \A b \in DOMAIN pc :
        \A j \in 1..Len(results[b]) :
            \A entry \in CatalogEntriesOf(results[b][j].model) :
                /\ InvokedWith(b, j, AdapterOf(entry.provider))
                /\ results[b][j].provider = entry.provider
                /\ results[b][j].errorCode # Some("UNSUPPORTED_MODEL")

C22_Witness ==
    /\ IsSome(catalog)
    /\ \E b \in DOMAIN pc :
        /\ Ok200(b)
        /\ Models(b) = <<Claude3Sonnet, UnknownModel, Gpt35Turbo>>
        /\ RespResults(b)[1].provider = "Anthropic"
        /\ RespResults(b)[3].provider = "OpenAI"
        /\ RespResults(b)[2].errorCode = Some("UNSUPPORTED_MODEL")

(* the request of batch b with iterations = 1 *)
WithOneIteration(b) == [req[b] EXCEPT !.iterations = Some(1)]

(* C23: iterations has no effect on dispatch: whatever its value, each     *)
(* position of models is invoked at most once, and the results, the        *)
(* invocations and the summary are those of the same request with          *)
(* iterations = 1 and the same adapter outcomes; the response only echoes  *)
(* the value.                                                              *)
C23_IterationsIgnored ==
    \A b \in DOMAIN pc :
        pc[b] # "idle" =>
            /\ \A j \in 1..Len(Models(b)) :
                Cardinality({k \in 1..Len(callLog[b]) : callLog[b][k].idx = j}) <= 1
            /\ LET h == Alone(WithOneIteration(b), settled[b])
               IN  /\ pc[b] = h.pc
                   /\ idx[b] = h.idx
                   /\ results[b] = h.results
                   /\ callLog[b] = h.calls
                   /\ Sent(b) =>
                       /\ Resp(b).status = Get(h.response).status
                       /\ Resp(b).results = Get(h.response).results
                       /\ Resp(b).summary = Get(h.response).summary
                       /\ Ok200(b) =>
                           Resp(b).iterations = Some(DefaultOr(req[b].iterations, 1))

C23_Witness ==
    \E b \in DOMAIN pc :
        /\ Ok200(b)
        /\ req[b].iterations = Some(3)
        /\ Resp(b).iterations = Some(3)
        /\ Len(callLog[b]) = 2
        /\ Len(RespResults(b)) = 2
        /\ RespSummary(b).totalModels = 2

(* C24: the testId of a batch differs from the testId of every other       *)
(* batch, also of one handled concurrently and finished in the same ms.    *)
C24_Original ==
    \A b \in DOMAIN pc :
        \A c \in DOMAIN pc :
            (b # c /\ IsSome(testId[b]) /\ IsSome(testId[c])) => testId[b] # testId[c]

(* C25: getDatabase returns the handle only when initializeDatabase has    *)
(* completed successfully and closeDatabase has not succeeded; in every    *)
(* other state (never initialized, initialization in progress or failed,   *)
(* closed) it throws.                                                      *)
C25_Original ==
    IsSome(dbCall) =>
        /\ Get(dbCall).db = "open" => Get(dbCall).result = "handle"
        /\ Get(dbCall).db # "open" => Get(dbCall).result = "throws"

(* C26: the server starts listening only in the step in which              *)
(* initializeDatabase resolves, and while it listens the database is open; *)
(* when initialization fails the process exits with code 1 and never       *)
(* listens.                                                                *)
C26_DatabaseBeforeListen ==
    /\ [][(server' = "listening" /\ server # "listening") =>
            (server = "starting" /\ db = "creating" /\ db' = "open")]_vars
    /\ [](server = "listening" => db = "open")
    /\ [](db = "failed" => server = "exit1")
    /\ [][(server \in {"exit0", "exit1"}) => (server' = server)]_vars

C26_Witness ==
    /\ server = "listening"
    /\ db = "open"
    /\ tables = CreateTables(NoTables)
    /\ \E b \in DOMAIN pc : Ok200(b)

C26_WitnessFailed ==
    /\ server = "exit1"
    /\ db = "failed"
    /\ tables = NoTables
    /\ \A b \in DOMAIN pc : pc[b] = "idle"

(* C27: after SIGTERM or SIGINT the process exits with code 0, and it does *)
(* so only once the database connection is closed, whatever the state of   *)
(* the handle (not opened, open, close failing).                           *)
C27_Original ==
    /\ [](server = "exit0" => db = "null")
    /\ (shutdown = "closing") ~> (server = "exit0")

(* the validation of testPrompt fails for this promptData *)
ApiInvalid(pd) == PromptRejected(pd.prompt) \/ ModelsRejected(pd.models)

(* C29: ApiService.testPrompt never rejects: with a blank prompt or an     *)
(* empty or non-array models list it sends no request, and every failure   *)
(* (validation, network error, non-OK status, body with success = false)   *)
(* is the value {success: false, error, results: [], summary: {}}.         *)
C29_TestPromptNeverRejects ==
    /\ \A k \in 1..Len(fetches) :
        /\ ~ApiInvalid(fetches[k].call)
        /\ fetches[k].body.prompt = Some(Trim(Get(fetches[k].call.prompt)))
    /\ IsSome(apiResult) =>
        LET a == Get(apiResult)
        IN  /\ a.outcome.settled = "fulfilled"
            /\ ApiInvalid(a.call) <=> ~a.sent
            /\ ~a.sent => ~a.outcome.value.success
            /\ ~a.outcome.value.success =>
                /\ IsSome(a.outcome.value.error)
                /\ Get(a.outcome.value.error) # ""
                /\ a.outcome.value.results = <<>>
                /\ a.outcome.value.summary = None

C29_Witness ==
    /\ IsSome(apiResult)
    /\ Get(apiResult).sent
    /\ Get(apiResult).outcome = Fulfilled(ApiFailure("HTTP 502: Bad Gateway"))
    /\ Len(fetches) = 1

C28_WitnessNoSelection ==
    /\ feEvent = "submit"
    /\ fePrompt = Hello
    /\ selectedModels = <<>>
    /\ feError = Some("Please select at least one model")
    /\ fetches = <<>>

(* the ids in a selection, and the ids of the available models of a provider *)
IdsOf(sel) == {sel[k] : k \in 1..Len(sel)}
IdsOfProvider(provider) ==
    {availableModels[k].id :
        k \in {k \in 1..Len(availableModels) :
                    ToLowerCase(availableModels[k].provider) = provider}}

(* C30: selectedModels never holds an id twice; a toggle flips the         *)
(* membership of its id and of no other; Clear All leaves the selection    *)
(* empty; Select All of a provider leaves all of that provider's models    *)
(* selected and deselects nothing.                                         *)
C30_SelectionConsistent ==
    /\ [](\A i \in 1..Len(selectedModels) :
            \A j \in 1..Len(selectedModels) :
                i # j => selectedModels[i] # selectedModels[j])
    /\ [][feEvent' = "toggle" =>
            Cardinality((IdsOf(selectedModels') \ IdsOf(selectedModels))
                        \cup (IdsOf(selectedModels) \ IdsOf(selectedModels'))) = 1]_vars
    /\ [][feEvent' = "clearAll" => selectedModels' = <<>>]_vars
    /\ [][feEvent' = "selectAll" =>
            /\ IdsOf(selectedModels) \subseteq IdsOf(selectedModels')
            /\ \E provider \in AvailableProviders :
                /\ IdsOfProvider(provider) \subseteq IdsOf(selectedModels')
                /\ IdsOf(selectedModels') \ IdsOf(selectedModels)
                       \subseteq IdsOfProvider(provider)]_vars

C30_Witness ==
    /\ feEvent = "selectAll"
    /\ Len(selectedModels) = 4
    /\ selectedModels[1] = Claude3Opus
    /\ IdsOf(selectedModels) = AvailableIds
====
